---- MODULE Spec2Model ----
(***************************************************************************)
(* Single Cell Survival: the match simulation core.                        *)
(*                                                                         *)
(* GameMode (controller), GameState (board, roster, phase, notifications), *)
(* TileFallManager (the falling-tile scheduler) and InputHandler (the      *)
(* movement tick) as one state machine.  Every JavaScript callback (a key  *)
(* handler, a setTimeout/setInterval callback, an animation frame) runs to *)
(* completion and is one action.                                           *)
(*                                                                         *)
(* Abstractions:                                                           *)
(*  - a player's pixel position (x, y) is kept as the hex cell that        *)
(*    pixelToAxial projects it to; a movement tick draws the cell of the   *)
(*    candidate position (newX, newY) from the cells within MoveReach of   *)
(*    the current one, on or off the board;                                *)
(*  - a player's velocity (vx, vy) is kept as at rest (0) or moving (1): a *)
(*    tick whose candidate position lies in another cell leaves the player *)
(*    moving, one whose candidate stays in the cell leaves either;         *)
(*  - performance.now() is the coarse clock `now`, which advances only in  *)
(*    the GameState harness (a match of the game fits in one unit of it);  *)
(*    a timer fires at some time after it was set, and an animation        *)
(*    (spawn, shatter) is found complete by some later frame: no order is  *)
(*    assumed between timers of different delays, as a browser may delay   *)
(*    frames and timers;                                                   *)
(*  - the board is generateHexGrid(GRID_RADIUS) for a small GRID_RADIUS;   *)
(*  - in the hexUtils harness a pixel coordinate is a fixed-point number   *)
(*    in units of 1/Scale, and each floating-point result carries a        *)
(*    rounding error of up to FloatErr units;                              *)
(*  - a match runs at most MaxCycles selection cycles, and the controller  *)
(*    restarts at most MaxRestarts times.                                  *)
(***************************************************************************)
EXTENDS Integers, Sequences, FiniteSets, TLC

(* ---------------------------------------------------------------- bounds *)
(* GameConfig.GRID_RADIUS is 6 in config.js (91 tiles); the model's board    *)
(* has radius 1 (7 tiles), and the two players start on opposite cells of    *)
(* its rim, two cells apart with the centre between them.                    *)
GRID_RADIUS == 1
MoveReach == 1
MaxCycles == 2
MaxCyclesRestarted == 1
MaxRateCycles == 27
MaxRestarts == 1
MaxNow == 2
MaxCalls == 3
MaxEmit == 3
(* The hexUtils harness: radii up to MaxRadius (GRID_RADIUS of config.js),   *)
(* coordinates for distance within MaxCoord of the origin.                   *)
MaxRadius == 6
MaxCoord == 3
FloatErr == 1
Scale == 1000

(* ------------------------------------------------------- program constants *)
PlayerCount == 2
TILE_FALL_INTERVAL == 800
MIN_FALL_INTERVAL == 300
FALL_ACCELERATION == 20

WaitingToStart == "WaitingToStart"
Spawning == "Spawning"
InProgress == "InProgress"
GameOver == "GameOver"
MatchPhase == {WaitingToStart, Spawning, InProgress, GameOver}

NoPlayer == 0
Players == 1..PlayerCount
Gens == 0..MaxRestarts

(* --------------------------------------------------------------- hexUtils *)
Abs(x) == IF x < 0 THEN -x ELSE x
Max(a, b) == IF a >= b THEN a ELSE b
Min(a, b) == IF a <= b THEN a ELSE b

SeqToSet(s) == { s[i] : i \in 1..Len(s) }

(* A HexPosition is the pair <<q, r>>.                                       *)
(* A variant of the distance that does not take the absolute value of the    *)
(* third cube component.                                                     *)
distanceTwiceSignedS(a, b) ==
    LET dq == a[1] - b[1]
        dr == a[2] - b[2]
        ds == (-a[1] - a[2]) - (-b[1] - b[2])
    IN  Abs(dq) + Abs(dr) + ds

(* HexPosition.distance: the sum that the method halves *)
distanceTwice(a, b) ==
    LET dq == a[1] - b[1]
        dr == a[2] - b[2]
        ds == (-a[1] - a[2]) - (-b[1] - b[2])
    IN  Abs(dq) + Abs(dr) + Abs(ds)

(* HexPosition.distance, where the sum is even (the quotient is an integer) *)
distance(a, b) == distanceTwice(a, b) \div 2

(* generateHexGrid: the inner loop, r from r1 to r2 *)
HexRow(q, r1, r2) == [i \in 1..(r2 - r1 + 1) |-> <<q, r1 + i - 1>>]

(* A variant of generateHexGrid whose inner loop stops before r2 *)
RECURSIVE generateHexGridFromShort(_, _)
generateHexGridFromShort(q, radius) ==
    IF q > radius THEN <<>>
    ELSE HexRow(q, Max(-radius, -q - radius), Min(radius, -q + radius) - 1)
         \o generateHexGridFromShort(q + 1, radius)

generateHexGridShort(radius) == generateHexGridFromShort(-radius, radius)

(* generateHexGrid: the outer loop, from q on; the tiles array in push order *)
RECURSIVE generateHexGridFrom(_, _)
generateHexGridFrom(q, radius) ==
    IF q > radius THEN <<>>
    ELSE HexRow(q, Max(-radius, -q - radius), Min(radius, -q + radius))
         \o generateHexGridFrom(q + 1, radius)

generateHexGrid(radius) == generateHexGridFrom(-radius, radius)

(* A variant of isWithinGrid that does not check the third cube component *)
isWithinGridAxial(pos, radius) ==
    Abs(pos[1]) <= radius /\ Abs(pos[2]) <= radius

(* isWithinGrid *)
isWithinGrid(pos, radius) ==
    LET s == -pos[1] - pos[2]
    IN  Abs(pos[1]) <= radius /\ Abs(pos[2]) <= radius /\ Abs(s) <= radius

(* Pixel coordinates and fractional hex coordinates are fixed-point numbers  *)
(* in units of 1/Scale.  A floating-point result is the fixed-point result   *)
(* plus a rounding error that the caller draws from -FloatErr..FloatErr.     *)
(* Math.sqrt(3), in units of 1/Scale *)
sqrt3 == CHOOSE n \in 0..(2 * Scale) :
            n * n <= 3 * Scale * Scale /\ (n + 1) * (n + 1) > 3 * Scale * Scale

(* Math.round: the nearest integer, a half rounds up *)
round(v) == (2 * v + Scale) \div (2 * Scale)

(* axialToPixel; e.x, e.y: the rounding errors of x and y *)
axialToPixel(pos, hexRadius, centerX, centerY, e) ==
    [x |-> hexRadius * (sqrt3 * pos[1] + (sqrt3 * pos[2]) \div 2)
              + centerX * Scale + e.x,
     y |-> hexRadius * ((3 * Scale * pos[2]) \div 2) + centerY * Scale + e.y]

(* A variant of hexRound that uses Math.floor where hexRound uses Math.round *)
hexRoundFloor(q, r) ==
    LET s == -q - r
        rq == q \div Scale
        rr == r \div Scale
        rs == s \div Scale
        qDiff == Abs(rq * Scale - q)
        rDiff == Abs(rr * Scale - r)
        sDiff == Abs(rs * Scale - s)
    IN  IF qDiff > rDiff /\ qDiff > sDiff THEN <<-rr - rs, rr>>
        ELSE IF rDiff > sDiff THEN <<rq, -rq - rs>>
        ELSE <<rq, rr>>

(* hexRound, on fractional coordinates q and r *)
hexRound(q, r) ==
    LET s == -q - r
        rq == round(q)
        rr == round(r)
        rs == round(s)
        qDiff == Abs(rq * Scale - q)
        rDiff == Abs(rr * Scale - r)
        sDiff == Abs(rs * Scale - s)
    IN  IF qDiff > rDiff /\ qDiff > sDiff THEN <<-rr - rs, rr>>
        ELSE IF rDiff > sDiff THEN <<rq, -rq - rs>>
        ELSE <<rq, rr>>

(* pixelToAxial; e.q, e.r: the rounding errors of the fractional q and r *)
pixelToAxial(x, y, hexRadius, centerX, centerY, e) ==
    LET relX == x - centerX * Scale
        relY == y - centerY * Scale
        q == ((sqrt3 * relX) \div (3 * Scale) - relY \div 3) \div hexRadius + e.q
        r == ((2 * relY) \div 3) \div hexRadius + e.r
    IN  hexRound(q, r)

(* The keys of the board that initializeBoard builds *)
Grid == SeqToSet(generateHexGrid(GRID_RADIUS))

(* Every cell a candidate position can project to: the board and the ring   *)
(* of cells MoveReach around it.                                            *)
Cells == SeqToSet(generateHexGrid(GRID_RADIUS + MoveReach))

(* PlayerConfig: player i starts on (startQ, startR) = (0, -r) or (0, r).    *)
StartCell(p) == IF p = 1 THEN <<0, -GRID_RADIUS>> ELSE <<0, GRID_RADIUS>>

(* ------------------------------------------------------------------ state *)
VARIABLES
    gen,                 \* GameMode: which GameState/TileFallManager instance is current
    now,                 \* performance.now()
    matchPhase,          \* GameState.matchPhase, per instance
    alivePlayers,        \* GameState.alivePlayers, per instance (a sequence)
    subscribed,          \* GameState.events has GameMode's listeners, per instance
    board,               \* GameState.board: cell -> Tile (current instance)
    players,             \* GameState.players (a sequence of player ids)
    pl,                  \* the Player objects
    gameStartTime,       \* GameState.gameStartTime
    isRunning,           \* TileFallManager.isRunning
    fallInterval,        \* TileFallManager.fallInterval
    nextFallTimeout,     \* TileFallManager.nextFallTimeout: "null", "live" or "stale"
    pendingFalls,        \* TileFallManager.pendingFalls: the cells that have a timer handle
    selTimers,           \* outstanding selection timers of the scheduler
    fallTimers,          \* outstanding warning timers of the scheduler, per cell
    cycles,              \* selection cycles run since start()
    checkTimers,         \* outstanding delayed game-over checks, per GameState instance
    playersSpawnStarted, \* GameMode.playersSpawnStarted
    spawnCheck,          \* GameMode.checkSpawnProgress: the interval is set
    startKeys,           \* handleStart listeners bound to keydown
    restartKeys,         \* handleRestart listeners bound to keydown
    elimCount,           \* playerEliminated notifications delivered, per player
    gameOverCount,       \* gameOver notifications delivered
    winner,              \* payload of the last gameOver delivered
    tileWarningCount,    \* tileWarning notifications delivered, per key
    tileFallenCount,     \* tileFallen notifications delivered, per key
    calls,               \* direct calls made by a test harness (none in the game)
    lastCall,            \* the last such call: <<method, argument, ...>>
    result,              \* <<the value a hexUtils call returned>>, <<>> before it returns
    frameLoops           \* requestAnimationFrame chains of GameMode.gameLoop that are active

vars == <<gen, now, matchPhase, alivePlayers, subscribed, board, players, pl,
          gameStartTime, isRunning, fallInterval, nextFallTimeout, pendingFalls,
          selTimers, fallTimers, cycles, checkTimers, playersSpawnStarted,
          spawnCheck, startKeys, restartKeys, elimCount, gameOverCount, winner,
          tileWarningCount, tileFallenCount, calls, lastCall, result,
          frameLoops>>

gameVars == <<gen, matchPhase, alivePlayers, subscribed, board, players, pl,
              gameStartTime, checkTimers, playersSpawnStarted, spawnCheck,
              startKeys, restartKeys, elimCount, gameOverCount, winner,
              tileWarningCount, tileFallenCount, frameLoops>>

schedVars == <<isRunning, fallInterval, nextFallTimeout, pendingFalls,
               selTimers, fallTimers, cycles>>

phase == matchPhase[gen]
alive == alivePlayers[gen]

NoTimers == [c \in Grid |-> 0]
NoTileEvents == [c \in Cells |-> 0]
EmptyBoard == [c \in {} |-> 0]

(* new Tile(pos) *)
NewTile == [isActive |-> TRUE, isWarning |-> FALSE, isShattering |-> FALSE,
            isSpawning |-> TRUE]

(* new Player(i, config, x, y) *)
NewPlayer(p) == [pos |-> StartCell(p), vel |-> 0, isAlive |-> TRUE,
                 isFalling |-> FALSE, isSpawning |-> TRUE, survivalTime |-> 0]

Inc(n) == Min(n + 1, MaxEmit)


(* -------------------------------------------------------------- GameState *)
(* The part of the state that an elimination touches, threaded through the  *)
(* loops that eliminate several players in one callback.                    *)
Eff(P, A, T, E) == [pl |-> P, alive |-> A, checks |-> T, elim |-> E]

(* A variant of startFalling that does not set the flag *)
startFallingNot(e, p) == e

(* Player.startFalling *)
startFalling(e, p) == [e EXCEPT !.pl[p].isFalling = TRUE]

(* A variant of eliminatePlayer that leaves the alive roster as it is *)
eliminatePlayerKeepsRoster(e, p, sub, t, t0) ==
    [pl     |-> [e.pl EXCEPT ![p].isAlive = FALSE,
                             ![p].survivalTime = t - t0],
     alive  |-> e.alive,
     checks |-> IF Len(e.alive) <= 1 THEN e.checks + 1 ELSE e.checks,
     elim   |-> IF sub THEN [e.elim EXCEPT ![p] = Inc(@)] ELSE e.elim]

(* GameState.eliminatePlayer: no guard on player.isAlive.  `sub` says        *)
(* whether the instance's emitter still has GameMode's listeners.           *)
eliminatePlayer(e, p, sub, t, t0) ==
    LET A == SelectSeq(e.alive, LAMBDA x : x # p)
    IN  [pl     |-> [e.pl EXCEPT ![p].isAlive = FALSE,
                                 ![p].survivalTime = t - t0],
         alive  |-> A,
         checks |-> IF Len(A) <= 1 THEN e.checks + 1 ELSE e.checks,
         elim   |-> IF sub THEN [e.elim EXCEPT ![p] = Inc(@)] ELSE e.elim]

(* GameState.areAllTilesSpawned *)
areAllTilesSpawned(b) == \A c \in DOMAIN b : ~b[c].isSpawning

(* A variant of areAllPlayersSpawned that is satisfied by one spawned player *)
areAnyPlayersSpawned(P) == \E p \in DOMAIN P : ~P[p].isSpawning

(* GameState.areAllPlayersSpawned *)
areAllPlayersSpawned(P) == \A p \in DOMAIN P : ~P[p].isSpawning

(* GameState.isTileActive, on the cell the position projects to *)
isTileActive(b, c) == c \in DOMAIN b /\ b[c].isActive

(* A variant of checkPlayersOnTile that filters this.players, not the alive  *)
(* roster.                                                                   *)
checkPlayersOnTileAll(b, P, A, k) ==
    IF k \notin DOMAIN b THEN <<>>
    ELSE SelectSeq([i \in 1..Cardinality(DOMAIN P) |-> i],
                   LAMBDA x : P[x].pos = k)

(* A variant of checkPlayersOnTile that returns the whole alive roster *)
checkPlayersOnTileEveryone(b, P, A, k) ==
    IF k \notin DOMAIN b THEN <<>> ELSE A

(* GameState.checkPlayersOnTile *)
checkPlayersOnTile(b, P, A, k) ==
    IF k \notin DOMAIN b THEN <<>>
    ELSE SelectSeq(A, LAMBDA x : P[x].pos = k)

(* The board with the tileWarning and tileFallen notifications delivered,   *)
(* which markTileWarning and removeTile change together.                     *)
Tiles(b, W, F) == [board |-> b, warned |-> W, fallen |-> F]

(* A variant of markTileWarning that does not check the tile's active flag *)
markTileWarningAnyTile(g, k, sub) ==
    IF k \in DOMAIN g.board
    THEN [g EXCEPT !.board[k].isWarning = TRUE,
                   !.warned[k] = IF sub THEN Inc(@) ELSE @]
    ELSE g

(* GameState.markTileWarning (Tile.startWarning, emit tileWarning); `sub`    *)
(* says whether the emitter has GameMode's listeners.                        *)
markTileWarning(g, k, sub) ==
    IF k \in DOMAIN g.board /\ g.board[k].isActive
    THEN [g EXCEPT !.board[k].isWarning = TRUE,
                   !.warned[k] = IF sub THEN Inc(@) ELSE @]
    ELSE g

(* GameState.removeTile (Tile.startShatter, emit tileFallen) *)
removeTile(g, k, sub) ==
    IF k \in DOMAIN g.board
    THEN [g EXCEPT !.board[k].isShattering = TRUE,
                   !.board[k].isWarning = FALSE,
                   !.fallen[k] = IF sub THEN Inc(@) ELSE @]
    ELSE g

(* The fields of a GameState that reset() writes; sub: its emitter has       *)
(* listeners.                                                                *)
GS(b, ps, A, ph, t0, sub) ==
    [board |-> b, players |-> ps, alive |-> A, phase |-> ph,
     gameStartTime |-> t0, sub |-> sub]

(* A variant of reset that does not clear the emitter *)
resetKeepsListeners(g) ==
    GS(EmptyBoard, <<>>, <<>>, WaitingToStart, 0, g.sub)

(* GameState.reset, with EventEmitter.clear *)
reset(g) ==
    GS(EmptyBoard, <<>>, <<>>, WaitingToStart, 0, FALSE)

(* Tile.fall *)
fall(tile) == [tile EXCEPT !.isActive = FALSE, !.isShattering = FALSE,
                           !.isWarning = FALSE]

(* A variant of the re-validation that reads the GameState that is current   *)
(* when the timer fires, not the one that set the timer.                     *)
GameOverCheckReadsCurrent(g) ==
    Len(alivePlayers[gen]) <= 1 /\ matchPhase[gen] = InProgress

(* Variants of the re-validation: one that re-checks nothing, one that does *)
(* not re-check the phase.                                                   *)
GameOverCheckNoRevalidation(g) == TRUE

GameOverCheckNoPhase(g) ==
    Len(alivePlayers[g]) <= 1

(* The re-validation of the delayed game-over check, on instance g *)
GameOverCheckPasses(g) ==
    Len(alivePlayers[g]) <= 1 /\ matchPhase[g] = InProgress

(* alivePlayers[0] || null *)
FirstAlive(A) == IF Len(A) > 0 THEN A[1] ELSE NoPlayer

(* -------------------------------------------------------- TileFallManager *)
Sched == [isRunning |-> isRunning, fallInterval |-> fallInterval,
          nextFallTimeout |-> nextFallTimeout, pendingFalls |-> pendingFalls,
          selTimers |-> selTimers, fallTimers |-> fallTimers, cycles |-> cycles]

(* new TileFallManager(gameState) *)
NewSched == [isRunning |-> FALSE, fallInterval |-> TILE_FALL_INTERVAL,
             nextFallTimeout |-> "null", pendingFalls |-> {},
             selTimers |-> 0, fallTimers |-> NoTimers, cycles |-> 0]

SetSched(s) ==
    /\ isRunning' = s.isRunning
    /\ fallInterval' = s.fallInterval
    /\ nextFallTimeout' = s.nextFallTimeout
    /\ pendingFalls' = s.pendingFalls
    /\ selTimers' = s.selTimers
    /\ fallTimers' = s.fallTimers
    /\ cycles' = s.cycles

(* TileFallManager.scheduleNextFall *)
scheduleNextFall(s) ==
    IF ~s.isRunning THEN s
    ELSE [s EXCEPT !.selTimers = @ + 1, !.nextFallTimeout = "live"]

(* TileFallManager.start *)
start(s) ==
    scheduleNextFall([s EXCEPT !.isRunning = TRUE,
                               !.fallInterval = TILE_FALL_INTERVAL,
                               !.cycles = 0])

(* Variants of stop: one that empties pendingFalls without clearing its      *)
(* timers, one that does not clear the selection timer, one that clears the  *)
(* timers of pendingFalls but leaves the map as it is.                       *)
stopKeepsFallTimers(s) ==
    [s EXCEPT !.isRunning = FALSE,
              !.selTimers = IF s.nextFallTimeout = "live" THEN @ - 1 ELSE @,
              !.nextFallTimeout = "null",
              !.pendingFalls = {}]

stopKeepsSelectionTimer(s) ==
    [s EXCEPT !.isRunning = FALSE,
              !.nextFallTimeout = "null",
              !.fallTimers = [k \in DOMAIN @ |->
                                 IF k \in s.pendingFalls /\ @[k] > 0
                                 THEN @[k] - 1 ELSE @[k]],
              !.pendingFalls = {}]

stopKeepsMap(s) ==
    [s EXCEPT !.isRunning = FALSE,
              !.selTimers = IF s.nextFallTimeout = "live" THEN @ - 1 ELSE @,
              !.nextFallTimeout = "null",
              !.fallTimers = [k \in DOMAIN @ |->
                                 IF k \in s.pendingFalls /\ @[k] > 0
                                 THEN @[k] - 1 ELSE @[k]]]

(* TileFallManager.stop: clearTimeout on a handle whose timer has fired is  *)
(* a no-op.                                                                  *)
stop(s) ==
    [s EXCEPT !.isRunning = FALSE,
              !.selTimers = IF s.nextFallTimeout = "live" THEN @ - 1 ELSE @,
              !.nextFallTimeout = "null",
              !.fallTimers = [k \in DOMAIN @ |->
                                 IF k \in s.pendingFalls /\ @[k] > 0
                                 THEN @[k] - 1 ELSE @[k]],
              !.pendingFalls = {}]

(* A variant of accelerateFallRate without the floor *)
accelerateNoFloor(interval) == interval - FALL_ACCELERATION

(* TileFallManager.accelerateFallRate *)
accelerateFallRate(interval) ==
    Max(MIN_FALL_INTERVAL, interval - FALL_ACCELERATION)

(* A variant of the candidate filter that does not exclude warning tiles *)
activeTilesWithWarning(b) == { k \in DOMAIN b : b[k].isActive }

(* TileFallManager.selectRandomTile: the candidates *)
activeTiles(b) == { k \in DOMAIN b : b[k].isActive /\ ~b[k].isWarning }

tilesWithPlayers(b, P, A) ==
    { k \in activeTiles(b) : Len(checkPlayersOnTile(b, P, A, k)) > 0 }


(* A variant of updatePlayerMovement that moves the player to the candidate  *)
(* without looking at the tile.                                              *)
updatePlayerMovementUnchecked(e, p, m, b, sub, t, t0) ==
    IF e.pl[p].isFalling THEN e
    ELSE [e EXCEPT !.pl[p].vel = m.vel, !.pl[p].pos = m.cell]

(* A variant of updatePlayerMovement that leaves a player whose candidate is *)
(* not on an active tile where it is, alive.                                 *)
updatePlayerMovementBlocked(e, p, m, b, sub, t, t0) ==
    IF e.pl[p].isFalling THEN e
    ELSE LET e1 == [e EXCEPT !.pl[p].vel = m.vel]
         IN  IF ~isTileActive(b, m.cell)
             THEN e1
             ELSE [e1 EXCEPT !.pl[p].pos = m.cell]

(* ----------------------------------------------------------- InputHandler *)
(* InputHandler.updatePlayerMovement: m.vel is the velocity the tick         *)
(* computes from the held keys, m.cell the cell of the candidate position    *)
(* (newX, newY).                                                             *)
updatePlayerMovement(e, p, m, b, sub, t, t0) ==
    IF e.pl[p].isFalling THEN e
    ELSE LET e1 == [e EXCEPT !.pl[p].vel = m.vel]
         IN  IF ~isTileActive(b, m.cell)
             THEN eliminatePlayer(startFalling(e1, p), p, sub, t, t0)
             ELSE [e1 EXCEPT !.pl[p].pos = m.cell]

(* InputHandler.updatePlayers: the loop runs over the roster as it was when  *)
(* the loop began (eliminatePlayer replaces the array, it does not edit it). *)
RECURSIVE MoveAll(_, _, _, _, _, _, _)
MoveAll(e, roster, cand, b, sub, t, t0) ==
    IF roster = <<>> THEN e
    ELSE MoveAll(updatePlayerMovement(e, Head(roster), cand[Head(roster)],
                                      b, sub, t, t0),
                 Tail(roster), cand, b, sub, t, t0)

(* A variant of updatePlayers without the check of the phase *)
updatePlayersAnyPhase(e, ph, roster, cand, b, sub, t, t0) ==
    MoveAll(e, roster, cand, b, sub, t, t0)

updatePlayers(e, ph, roster, cand, b, sub, t, t0) ==
    IF ph # InProgress THEN e
    ELSE MoveAll(e, roster, cand, b, sub, t, t0)

(* The cells a candidate position can project to from cell c: the board's   *)
(* cells within MoveReach and, when a cell off the board is within reach,    *)
(* one such cell (board.get finds no tile for any of them).                  *)
Reach ==
    [c \in Grid |->
        LET near == { d \in Cells : distance(c, d) <= MoveReach }
        IN  (near \cap Grid) \cup
            (IF near \ Grid = {} THEN {}
             ELSE { CHOOSE d \in near \ Grid : TRUE })]

(* What the held keys and the elapsed time give for player p: a candidate   *)
(* in a cell of Reach, and a velocity that is moving if that is another      *)
(* cell.                                                                     *)
Candidates(P, p) ==
    UNION { { [cell |-> c, vel |-> v] :
                v \in IF c # P[p].pos THEN {1} ELSE 0..1 } :
            c \in Reach[P[p].pos] }

(* What a tick of the game can compute for player p: a player that the tick  *)
(* moves gets one of its candidates; for the others the tick computes        *)
(* nothing.                                                                  *)
MoveOf(ph, P, A, p) ==
    IF ph = InProgress /\ p \in SeqToSet(A) /\ ~P[p].isFalling
    THEN Candidates(P, p)
    ELSE { [cell |-> P[p].pos, vel |-> P[p].vel] }

RECURSIVE MovesUpTo(_, _, _, _)
MovesUpTo(ph, P, A, n) ==
    IF n = 0 THEN { <<>> }
    ELSE { Append(f, m) : f \in MovesUpTo(ph, P, A, n - 1),
                          m \in MoveOf(ph, P, A, n) }

(* The velocities and candidate cells a tick can produce, per player *)
Moves(ph, P, A) == MovesUpTo(ph, P, A, Len(P))

(* The candidates of all players, whatever the phase and the players' flags *)
RECURSIVE CandidatesUpTo(_, _)
CandidatesUpTo(P, n) ==
    IF n = 0 THEN { <<>> }
    ELSE { Append(f, m) : f \in CandidatesUpTo(P, n - 1),
                          m \in Candidates(P, n) }

AllCandidates(P) == CandidatesUpTo(P, Len(P))

(* -------------------------------------------------------- TileFallManager *)
(* A variant of the loop of executeFall that eliminates nobody *)
FallNone(e, victims, sub, t, t0) == e

(* A variant of the loop of executeFall that stops after the first player *)
FallFirstOnly(e, victims, sub, t, t0) ==
    IF victims = <<>> THEN e
    ELSE eliminatePlayer(startFalling(e, Head(victims)), Head(victims),
                         sub, t, t0)

(* TileFallManager.executeFall: the loop over the players on the tile *)
RECURSIVE FallAll(_, _, _, _, _)
FallAll(e, victims, sub, t, t0) ==
    IF victims = <<>> THEN e
    ELSE FallAll(eliminatePlayer(startFalling(e, Head(victims)), Head(victims),
                                 sub, t, t0),
                 Tail(victims), sub, t, t0)

(* ---------------------------------------------------------------- actions *)
SetEff(e) ==
    /\ pl' = e.pl
    /\ alivePlayers' = [alivePlayers EXCEPT ![gen] = e.alive]
    /\ checkTimers' = [checkTimers EXCEPT ![gen] = e.checks]
    /\ elimCount' = e.elim

CurEff == Eff(pl, alive, checkTimers[gen], elimCount)

SetTiles(g) ==
    /\ board' = g.board
    /\ tileWarningCount' = g.warned
    /\ tileFallenCount' = g.fallen

CurTiles == Tiles(board, tileWarningCount, tileFallenCount)

SetGS(g) ==
    /\ board' = g.board
    /\ players' = g.players
    /\ alivePlayers' = [alivePlayers EXCEPT ![gen] = g.alive]
    /\ matchPhase' = [matchPhase EXCEPT ![gen] = g.phase]
    /\ gameStartTime' = g.gameStartTime
    /\ subscribed' = [subscribed EXCEPT ![gen] = g.sub]

CurGS == GS(board, players, alive, phase, gameStartTime, subscribed[gen])

(* keydown Space: GameMode.bindStartKey's handleStart, startTileSpawn,       *)
(* GameState.initializeBoard, checkSpawnProgress                             *)
PressSpace ==
    /\ startKeys > 0
    /\ phase = WaitingToStart
    /\ startKeys' = startKeys - 1
    /\ matchPhase' = [matchPhase EXCEPT ![gen] = Spawning]
    /\ board' = [c \in Grid |-> NewTile]
    /\ spawnCheck' = TRUE
    /\ UNCHANGED <<calls, lastCall, result, frameLoops, gen, now, alivePlayers, subscribed, players, pl,
                   gameStartTime, schedVars, checkTimers, playersSpawnStarted,
                   restartKeys, elimCount, gameOverCount, winner,
                   tileWarningCount, tileFallenCount>>

(* GameMode.startGame *)
startGameSched == start(Sched)

(* GameMode.startGameLoop: requestAnimationFrame(boundGameLoop) starts a     *)
(* chain of gameLoop callbacks, each of which requests the next; n is the    *)
(* number of chains active before the call.  Nothing calls stopGameLoop.     *)
startGameLoop(n) == n + 1

(* The setInterval callback of GameMode.checkSpawnProgress, with             *)
(* GameState.initializePlayers and GameMode.startGame                        *)
SpawnCheck ==
    /\ spawnCheck
    /\ LET create == areAllTilesSpawned(board) /\ ~playersSpawnStarted
           P == IF create THEN [p \in Players |-> NewPlayer(p)] ELSE pl
           started == playersSpawnStarted \/ create
           done == started /\ areAllPlayersSpawned(P)
       IN  /\ playersSpawnStarted' = started
           /\ pl' = P
           /\ players' = IF create THEN [i \in 1..PlayerCount |-> i] ELSE players
           /\ alivePlayers' = IF create
                              THEN [alivePlayers EXCEPT
                                      ![gen] = [i \in 1..PlayerCount |-> i]]
                              ELSE alivePlayers
           /\ IF done
              THEN /\ spawnCheck' = FALSE
                   /\ matchPhase' = [matchPhase EXCEPT ![gen] = InProgress]
                   /\ gameStartTime' = now
                   /\ SetSched(startGameSched)
                   /\ frameLoops' = startGameLoop(frameLoops)
              ELSE UNCHANGED <<spawnCheck, matchPhase, gameStartTime, schedVars,
                               frameLoops>>
    /\ UNCHANGED <<calls, lastCall, result, gen, now, subscribed, board, checkTimers, startKeys,
                   restartKeys, elimCount, gameOverCount, winner,
                   tileWarningCount, tileFallenCount>>

(* One animation frame: GameMode.gameLoop = update (updatePlayers,           *)
(* updateTileAnimations) then Renderer.render (Tile.render and Player.render *)
(* read getShatterProgress and getSpawnProgress).  cand: what the movement   *)
(* tick computes per player; sd: the shattering tiles whose shatter has run  *)
(* its duration; ts, ps: the tiles and players whose spawn animation has run *)
(* its duration.  The callback requests the next frame: its chain goes on.   *)
gameLoop(cand, sd, ts, ps) ==
    LET e == updatePlayers(CurEff, phase, alive, cand, board,
                           subscribed[gen], now, gameStartTime)
    IN  /\ frameLoops > 0
        /\ SetEff([e EXCEPT !.pl = [p \in DOMAIN @ |->
                      IF p \in ps THEN [@[p] EXCEPT !.isSpawning = FALSE]
                      ELSE @[p]]])
        /\ board' = [c \in DOMAIN board |->
                       IF c \in sd THEN fall(board[c])
                       ELSE IF c \in ts
                            THEN [board[c] EXCEPT !.isSpawning = FALSE]
                            ELSE board[c]]
        /\ UNCHANGED <<calls, lastCall, result, frameLoops, gen, now, matchPhase, subscribed, players,
                       gameStartTime, schedVars, playersSpawnStarted,
                       spawnCheck, startKeys, restartKeys, gameOverCount,
                       winner, tileWarningCount, tileFallenCount>>

(* The animations a frame can find complete *)
ShatterDone == SUBSET { c \in DOMAIN board : board[c].isShattering }
TileSpawnDone == SUBSET { c \in DOMAIN board :
                            board[c].isSpawning /\ board[c].isActive
                            /\ ~board[c].isShattering }
PlayerSpawnDone == SUBSET { p \in DOMAIN pl : pl[p].isSpawning }

Frame ==
    \E cand \in Moves(phase, pl, alive) :
    \E sd \in ShatterDone :
    \E ts \in TileSpawnDone :
    \E ps \in PlayerSpawnDone :
        gameLoop(cand, sd, ts, ps)

(* TileFallManager.selectRandomTile: the tiles the random index is drawn      *)
(* over; targeted is the outcome of Math.random() < 0.2.                     *)
candidateTiles(b, P, A, targeted) ==
    IF tilesWithPlayers(b, P, A) # {} /\ targeted
    THEN tilesWithPlayers(b, P, A)
    ELSE activeTiles(b)

(* A variant of selectRandomTile that never finds a tile *)
selectRandomTileNothing(s, g, P, A, targeted, sub) == { <<g, s>> }

(* A variant of selectRandomTile without the early return: with no eligible  *)
(* tile it draws among the tiles of the board.                               *)
selectRandomTileNoReturn(s, g, P, A, targeted, sub) ==
    { <<markTileWarning(g, k, sub),
        [s EXCEPT !.fallTimers[k] = @ + 1,
                  !.pendingFalls = @ \cup {k}]>> :
      k \in IF activeTiles(g.board) = {} THEN DOMAIN g.board
            ELSE candidateTiles(g.board, P, A, targeted) }

(* TileFallManager.selectRandomTile on the scheduler s and the tiles g: the  *)
(* pairs <<tiles, scheduler>> it can produce.                                *)
selectRandomTile(s, g, P, A, targeted, sub) ==
    IF activeTiles(g.board) = {} THEN { <<g, s>> }
    ELSE { <<markTileWarning(g, k, sub),
             [s EXCEPT !.fallTimers[k] = @ + 1,
                       !.pendingFalls = @ \cup {k}]>> :
           k \in candidateTiles(g.board, P, A, targeted) }

(* The selection timer's callback (TileFallManager.scheduleNextFall):        *)
(* selectRandomTile, accelerateFallRate, scheduleNextFall                    *)
(* c is the count of cycles the callback leaves.                             *)
SelectionStep(targeted, c) ==
    /\ selTimers > 0
    /\ \E r \in selectRandomTile(
                  [Sched EXCEPT !.selTimers = @ - 1,
                                !.nextFallTimeout =
                                    IF @ = "live" /\ selTimers = 1
                                    THEN "stale" ELSE @],
                  CurTiles, pl, alive, targeted, subscribed[gen]) :
          /\ SetTiles(r[1])
          /\ SetSched(scheduleNextFall(
                 [r[2] EXCEPT !.fallInterval = accelerateFallRate(@),
                              !.cycles = c]))

SelectionBranch(cap, targeted) ==
    /\ cycles < cap
    /\ SelectionStep(targeted, cycles + 1)

SelectionTimer(cap) == \E targeted \in BOOLEAN : SelectionBranch(cap, targeted)

(* The cycles explored per match: MaxCycles in the first match,             *)
(* MaxCyclesRestarted in a match that follows a restart.                     *)
CycleCap == IF gen = 0 THEN MaxCycles ELSE MaxCyclesRestarted

SelectionFire ==
    /\ SelectionTimer(CycleCap)
    /\ UNCHANGED <<calls, lastCall, result, frameLoops, gen, now, matchPhase, alivePlayers, subscribed, players, pl,
                   gameStartTime, checkTimers, playersSpawnStarted, spawnCheck,
                   startKeys, restartKeys, elimCount, gameOverCount, winner,
                   tileFallenCount>>

(* TileFallManager.executeFall(k), the warning timer's callback *)
executeFall(k) ==
    /\ fallTimers[k] > 0
    /\ fallTimers' = [fallTimers EXCEPT ![k] = @ - 1]
    /\ pendingFalls' = pendingFalls \ {k}
    /\ SetEff(FallAll(CurEff, checkPlayersOnTile(board, pl, alive, k),
                      subscribed[gen], now, gameStartTime))
    /\ SetTiles(removeTile(CurTiles, k, subscribed[gen]))
    /\ UNCHANGED <<calls, lastCall, result, frameLoops, gen, now, matchPhase, subscribed, players, gameStartTime,
                   isRunning, fallInterval, nextFallTimeout, selTimers, cycles,
                   playersSpawnStarted, spawnCheck, startKeys, restartKeys,
                   gameOverCount, winner>>

(* TileFallManager.executeFall(k): the notifications it delivers, in the     *)
(* order of its emit calls: a playerEliminated for each player on the tile,  *)
(* then the tileFallen of removeTile.                                        *)
executeFallEmits(k) ==
    LET victims == checkPlayersOnTile(board, pl, alive, k)
    IN  IF ~subscribed[gen] THEN <<>>
        ELSE [i \in 1..Len(victims) |-> <<"playerEliminated", victims[i]>>]
             \o (IF k \in DOMAIN board THEN << <<"tileFallen", k>> >>
                 ELSE <<>>)

WarningFire == \E k \in Grid : executeFall(k)

(* A variant of handleGameOver that leaves the scheduler as it is *)
handleGameOverNoStop == Sched

(* Variants of handleGameOver whose stop leaves a timer set: the selection   *)
(* timer, the warning timers.                                                *)
handleGameOverKeepsSelectionTimer == stopKeepsSelectionTimer(Sched)

handleGameOverKeepsFallTimers == stopKeepsFallTimers(Sched)

(* GameMode.handleGameOver: the scheduler after tileFallManager.stop() *)
handleGameOverSched == stop(Sched)

(* The delayed game-over check set by eliminatePlayer on instance g fires;   *)
(* its gameOver reaches GameMode.handleGameOver if the instance's emitter    *)
(* still has the listeners.                                                  *)
GameOverCheck(g) ==
    /\ checkTimers[g] > 0
    /\ checkTimers' = [checkTimers EXCEPT ![g] = @ - 1]
    /\ IF GameOverCheckPasses(g)
       THEN /\ matchPhase' = [matchPhase EXCEPT ![g] = GameOver]
            /\ IF subscribed[g]
               THEN /\ SetSched(handleGameOverSched)
                    /\ restartKeys' = restartKeys + 1
                    /\ gameOverCount' = Inc(gameOverCount)
                    /\ winner' = FirstAlive(alivePlayers[g])
               ELSE UNCHANGED <<schedVars, restartKeys, gameOverCount, winner>>
       ELSE UNCHANGED <<matchPhase, schedVars, restartKeys, gameOverCount,
                        winner>>
    /\ UNCHANGED <<calls, lastCall, result, frameLoops, gen, now, alivePlayers, subscribed, board, players, pl,
                   gameStartTime, playersSpawnStarted, spawnCheck, startKeys,
                   elimCount, tileWarningCount, tileFallenCount>>

CheckFire == \E g \in Gens : GameOverCheck(g)

(* keydown KeyR: handleRestart, GameMode.restart = GameState.reset on the    *)
(* current instance, then GameMode.initialize: a new GameState, a new        *)
(* TileFallManager, subscribeToEvents, bindStartKey.  The notifications      *)
(* counted are those of the current match.                                   *)
PressR ==
    /\ restartKeys > 0
    /\ gen < MaxRestarts
    /\ restartKeys' = restartKeys - 1
    /\ playersSpawnStarted' = FALSE
    /\ LET old == reset(CurGS)
       IN  /\ board' = EmptyBoard
           /\ players' = <<>>
           /\ pl' = EmptyBoard
           /\ gameStartTime' = 0
           /\ gen' = gen + 1
           /\ matchPhase' = [matchPhase EXCEPT ![gen] = old.phase,
                                               ![gen + 1] = WaitingToStart]
           /\ alivePlayers' = [alivePlayers EXCEPT ![gen] = old.alive,
                                                   ![gen + 1] = <<>>]
           /\ subscribed' = [subscribed EXCEPT ![gen] = old.sub,
                                               ![gen + 1] = TRUE]
    /\ SetSched(NewSched)
    /\ startKeys' = startKeys + 1
    /\ elimCount' = [p \in Players |-> 0]
    /\ gameOverCount' = 0
    /\ winner' = NoPlayer
    /\ tileWarningCount' = NoTileEvents
    /\ tileFallenCount' = NoTileEvents
    /\ frameLoops' = startGameLoop(frameLoops)
    /\ UNCHANGED <<calls, lastCall, result, now, checkTimers, spawnCheck>>

(* Time passes *)
Tick ==
    /\ now < MaxNow
    /\ now' = now + 1
    /\ UNCHANGED <<gameVars, schedVars, calls, lastCall, result>>

(* The constructors: new GameState(), new TileFallManager(gameState), and    *)
(* GameMode.initialize's subscribeToEvents and bindStartKey; b, P, A, ph and *)
(* t0 are the board, the players, the roster, the phase and the start time   *)
(* of the first GameState instance.                                          *)
ConstructGame(b, P, A, ph, t0) ==
    /\ gen = 0
    /\ now = 1
    /\ matchPhase = [g \in Gens |-> IF g = 0 THEN ph ELSE WaitingToStart]
    /\ alivePlayers = [g \in Gens |-> IF g = 0 THEN A ELSE <<>>]
    /\ subscribed = [g \in Gens |-> g = 0]
    /\ board = b
    /\ players = A
    /\ pl = P
    /\ gameStartTime = t0
    /\ isRunning = FALSE
    /\ fallInterval = TILE_FALL_INTERVAL
    /\ nextFallTimeout = "null"
    /\ pendingFalls = {}
    /\ selTimers = 0
    /\ fallTimers = NoTimers
    /\ cycles = 0
    /\ checkTimers = [g \in Gens |-> 0]
    /\ playersSpawnStarted = FALSE
    /\ spawnCheck = FALSE
    /\ startKeys = 1
    /\ restartKeys = 0
    /\ elimCount = [p \in Players |-> 0]
    /\ gameOverCount = 0
    /\ winner = NoPlayer
    /\ tileWarningCount = NoTileEvents
    /\ tileFallenCount = NoTileEvents
    /\ calls = 0
    /\ frameLoops = IF ph \in {InProgress, GameOver}
                    THEN startGameLoop(startGameLoop(0))
                    ELSE startGameLoop(0)

Construct(b, P, A, ph, t0) ==
    /\ ConstructGame(b, P, A, ph, t0)
    /\ lastCall = <<>>
    /\ result = <<>>

(* The state after new GameMode(canvas) and initialize(2) *)
Init == Construct(EmptyBoard, EmptyBoard, <<>>, WaitingToStart, 0)

Next ==
    \/ PressSpace
    \/ SpawnCheck
    \/ Frame
    \/ SelectionFire
    \/ WarningFire
    \/ CheckFire
    \/ PressR

Spec == Init /\ [][Next]_vars


(* ------------------------------------------------------- scheduler harness *)
(* A TileFallManager driven directly: start() on a stopped scheduler (as     *)
(* GameMode.startGame calls it) and stop() at any time, over a GameState     *)
(* whose board has been initialized and has finished its spawn animations,   *)
(* and that has no players.                                                  *)
CallStart ==
    /\ calls < MaxCalls
    /\ ~isRunning
    /\ calls' = calls + 1
    /\ lastCall' = <<"start">>
    /\ SetSched(start(Sched))
    /\ UNCHANGED <<gameVars, now, result>>

CallStop ==
    /\ calls < MaxCalls
    /\ calls' = calls + 1
    /\ lastCall' = <<"stop">>
    /\ SetSched(stop(Sched))
    /\ UNCHANGED <<gameVars, now, result>>

InitSched == Construct([c \in Grid |-> [NewTile EXCEPT !.isSpawning = FALSE]],
                       EmptyBoard, <<>>,
                       WaitingToStart, 0)

NextSched ==
    \/ CallStart
    \/ CallStop
    \/ SelectionFire
    \/ WarningFire
    \/ Frame

SpecSched == InitSched /\ [][NextSched]_vars

(* The same scheduler over the empty board of a GameState just constructed:  *)
(* every cycle finds no tile, and the interval runs down to its floor.       *)
RateSelectionFire ==
    /\ SelectionTimer(MaxRateCycles)
    /\ UNCHANGED <<calls, lastCall, result, frameLoops, gen, now, matchPhase, alivePlayers, subscribed, players, pl,
                   gameStartTime, checkTimers, playersSpawnStarted, spawnCheck,
                   startKeys, restartKeys, elimCount, gameOverCount, winner,
                   tileFallenCount>>

NextRate ==
    \/ CallStart
    \/ CallStop
    \/ RateSelectionFire

SpecRate == Init /\ [][NextRate]_vars

(* ------------------------------------------------------- GameState harness *)
(* A GameState in a running match (board and players initialized, phase      *)
(* InProgress, listeners subscribed) whose eliminatePlayer is called         *)
(* directly, on any player, any number of times up to MaxCalls.              *)
CallEliminate(p) ==
    /\ calls < MaxCalls
    /\ calls' = calls + 1
    /\ lastCall' = <<"eliminatePlayer", p>>
    /\ SetEff(eliminatePlayer(CurEff, p, subscribed[gen], now, gameStartTime))
    /\ UNCHANGED <<result, frameLoops, gen, now, matchPhase, subscribed, board, players,
                   gameStartTime, schedVars, playersSpawnStarted, spawnCheck,
                   startKeys, restartKeys, gameOverCount, winner,
                   tileWarningCount, tileFallenCount>>

CallEliminatePlayer == \E p \in Players : CallEliminate(p)

InitState == Construct([c \in Grid |-> NewTile],
                       [p \in Players |-> NewPlayer(p)],
                       [i \in 1..PlayerCount |-> i], InProgress, 1)

NextState ==
    \/ CallEliminatePlayer
    \/ CheckFire
    \/ Tick

SpecState == InitState /\ [][NextState]_vars


(* ---------------------------------------------------------- tiles harness *)
(* A GameState whose board has finished spawning and whose markTileWarning   *)
(* and removeTile are called directly, with any key, on or off the board,    *)
(* while frames run (a frame completes the shatter of a tile).               *)
CallMarkTileWarningOn(k) ==
    /\ calls < MaxCalls
    /\ calls' = calls + 1
    /\ lastCall' = <<"markTileWarning", k>>
    /\ SetTiles(markTileWarning(CurTiles, k, subscribed[gen]))
    /\ UNCHANGED <<result, frameLoops, gen, now, matchPhase, alivePlayers, subscribed, players, pl,
                   gameStartTime, schedVars, checkTimers, playersSpawnStarted,
                   spawnCheck, startKeys, restartKeys, elimCount,
                   gameOverCount, winner>>

CallMarkTileWarning == \E k \in Cells : CallMarkTileWarningOn(k)

CallRemoveTileOn(k) ==
    /\ calls < MaxCalls
    /\ calls' = calls + 1
    /\ lastCall' = <<"removeTile", k>>
    /\ SetTiles(removeTile(CurTiles, k, subscribed[gen]))
    /\ UNCHANGED <<result, frameLoops, gen, now, matchPhase, alivePlayers, subscribed, players, pl,
                   gameStartTime, schedVars, checkTimers, playersSpawnStarted,
                   spawnCheck, startKeys, restartKeys, elimCount,
                   gameOverCount, winner>>

CallRemoveTile == \E k \in Cells : CallRemoveTileOn(k)

NextTiles ==
    \/ CallMarkTileWarning
    \/ CallRemoveTile
    \/ Frame

SpecTiles == InitSched /\ [][NextTiles]_vars

(* ---------------------------------------------------------- reset harness *)
(* The GameState of a running match whose reset() and eliminatePlayer are    *)
(* called directly: the caller holds the Player objects, so it can call      *)
(* eliminatePlayer (which emits playerEliminated) after a reset.             *)
CallReset ==
    /\ calls < MaxCalls
    /\ calls' = calls + 1
    /\ lastCall' = <<"reset">>
    /\ SetGS(reset(CurGS))
    /\ UNCHANGED <<result, frameLoops, gen, now, pl, schedVars, checkTimers, playersSpawnStarted,
                   spawnCheck, startKeys, restartKeys, elimCount,
                   gameOverCount, winner, tileWarningCount, tileFallenCount>>

NextReset ==
    \/ CallReset
    \/ CallEliminatePlayer
    \/ CheckFire
    \/ Tick

SpecReset == InitState /\ [][NextReset]_vars

(* ------------------------------------------------------- hexUtils harness *)
(* One call of a function of hexUtils: the initial state holds the call and  *)
(* its arguments, the action applies the function and keeps what it returns. *)
(* Coordinates are drawn from the square of side 2 * MaxCoord + 1 around the *)
(* origin, radii up to MaxRadius, and the rounding errors of a conversion    *)
(* from -FloatErr..FloatErr.                                                 *)
HexRange == (-MaxCoord..MaxCoord) \X (-MaxCoord..MaxCoord)
FloatErrs == -FloatErr..FloatErr
PixelErrs == [x : FloatErrs, y : FloatErrs, q : FloatErrs, r : FloatErrs]

(* GameConfig.HEX_SIZE, and a smaller hexagon *)
HexSizes == {40, 7}

(* Renderer's centre of the canvas (CANVAS_SIZE / 2), and the origin *)
Centers == {350, 0}

(* The calls the harness makes, with their arguments *)
HexCall(c) ==
    \/ \E r \in 0..MaxRadius : c = <<"generateHexGrid", r>>
    \/ \E a \in HexRange : \E b \in HexRange : \E d \in HexRange :
          c = <<"distance", a, b, d>>
    \/ \E q \in -(MaxRadius + 1)..(MaxRadius + 1) :
       \E r \in -(MaxRadius + 1)..(MaxRadius + 1) :
       \E radius \in -1..MaxRadius :
          c = <<"isWithinGrid", <<q, r>>, radius>>
    \/ \E p \in SeqToSet(generateHexGrid(MaxRadius)) : \E size \in HexSizes :
       \E centre \in Centers : \E e \in PixelErrs :
          c = <<"pixelToAxial", p, size, centre, e>>

CallGenerateHexGrid ==
    /\ lastCall[1] = "generateHexGrid"
    /\ result = <<>>
    /\ result' = <<generateHexGrid(lastCall[2])>>
    /\ UNCHANGED <<gameVars, schedVars, now, calls, lastCall>>

(* a.distance(b), b.distance(a), b.distance(c) and a.distance(c), each with  *)
(* the sum that the method halves                                            *)
CallDistance ==
    /\ lastCall[1] = "distance"
    /\ result = <<>>
    /\ LET a == lastCall[2]
           b == lastCall[3]
           c == lastCall[4]
       IN  result' = << [ab |-> distance(a, b), ba |-> distance(b, a),
                         bc |-> distance(b, c), ac |-> distance(a, c),
                         ab2 |-> distanceTwice(a, b)] >>
    /\ UNCHANGED <<gameVars, schedVars, now, calls, lastCall>>

CallIsWithinGrid ==
    /\ lastCall[1] = "isWithinGrid"
    /\ result = <<>>
    /\ result' = <<isWithinGrid(lastCall[2], lastCall[3])>>
    /\ UNCHANGED <<gameVars, schedVars, now, calls, lastCall>>

(* pixelToAxial(axialToPixel(p)) with one size and one centre *)
CallPixelToAxial ==
    /\ lastCall[1] = "pixelToAxial"
    /\ result = <<>>
    /\ LET p == lastCall[2]
           size == lastCall[3]
           c == lastCall[4]
           e == lastCall[5]
           px == axialToPixel(p, size, c, c, e)
       IN  result' = <<pixelToAxial(px.x, px.y, size, c, c, e)>>
    /\ UNCHANGED <<gameVars, schedVars, now, calls, lastCall>>

InitHex ==
    /\ ConstructGame(EmptyBoard, EmptyBoard, <<>>, WaitingToStart, 0)
    /\ HexCall(lastCall)
    /\ result = <<>>

NextHex ==
    \/ CallGenerateHexGrid
    \/ CallDistance
    \/ CallIsWithinGrid
    \/ CallPixelToAxial

SpecHex == InitHex /\ [][NextHex]_vars

(* ---------------------------------------------------- InputHandler harness *)
(* An InputHandler whose updatePlayers is called directly, with any keys     *)
(* held, on a GameState that has its board and its players: in Spawning      *)
(* (players created, the match not started), in a running match, and, once   *)
(* a delayed check has ended the match, in GameOver.  (In WaitingToStart a   *)
(* GameState has no players.)                                                *)
CallUpdatePlayersWith(cand) ==
    /\ lastCall' = <<"updatePlayers", cand>>
    /\ SetEff(updatePlayers(CurEff, phase, alive, cand, board,
                            subscribed[gen], now, gameStartTime))
    /\ UNCHANGED <<result, frameLoops, calls, gen, now, matchPhase, subscribed, board,
                   players, gameStartTime, schedVars, playersSpawnStarted,
                   spawnCheck, startKeys, restartKeys, gameOverCount, winner,
                   tileWarningCount, tileFallenCount>>

CallUpdatePlayers == \E cand \in AllCandidates(pl) : CallUpdatePlayersWith(cand)

InitMove ==
    \E ph \in {Spawning, InProgress} :
       Construct([c \in Grid |-> [NewTile EXCEPT !.isSpawning = FALSE]],
                 [p \in Players |->
                     [NewPlayer(p) EXCEPT !.isSpawning = (ph = Spawning)]],
                 [i \in 1..PlayerCount |-> i], ph,
                 IF ph = InProgress THEN 1 ELSE 0)

NextMove ==
    \/ CallUpdatePlayers
    \/ CheckFire

SpecMove == InitMove /\ [][NextMove]_vars

(* ------------------------------------------------------ late-match harness *)
(* The scheduler driven directly over the board of a match that has gone on  *)
(* for long: every tile has fallen but the two the players started on.  The  *)
(* cycles soon find no tile that is active and not in warning.               *)
LateTiles == { StartCell(p) : p \in Players }

InitLate ==
    Construct([c \in Grid |->
                  IF c \in LateTiles THEN [NewTile EXCEPT !.isSpawning = FALSE]
                  ELSE fall([NewTile EXCEPT !.isSpawning = FALSE])],
              EmptyBoard, <<>>, WaitingToStart, 0)

NextLate ==
    \/ CallStart
    \/ CallStop
    \/ RateSelectionFire
    \/ WarningFire
    \/ Frame

SpecLate == InitLate /\ [][NextLate]_vars

(* ---------------------------------------------------------- a match's end *)
(* A match in progress late on: the scheduler that startGame started has    *)
(* run its interval down to the floor, every tile has fallen but the centre  *)
(* and the tile next to it that the last player started on, and the players  *)
(* are spawned and alive: the first has walked to the centre, the last is    *)
(* where it started.  The count of cycles is kept up to MaxRateCycles.       *)
LiveTiles == { <<0, 0>>, StartCell(PlayerCount) }

InitLive ==
    /\ gen = 0
    /\ now = 1
    /\ matchPhase = [g \in Gens |-> IF g = 0 THEN InProgress ELSE WaitingToStart]
    /\ alivePlayers = [g \in Gens |->
                          IF g = 0 THEN [i \in 1..PlayerCount |-> i] ELSE <<>>]
    /\ subscribed = [g \in Gens |-> g = 0]
    /\ board = [c \in Grid |->
                  IF c \in LiveTiles THEN [NewTile EXCEPT !.isSpawning = FALSE]
                  ELSE fall([NewTile EXCEPT !.isSpawning = FALSE])]
    /\ players = [i \in 1..PlayerCount |-> i]
    /\ pl = [p \in Players |->
               [NewPlayer(p) EXCEPT !.isSpawning = FALSE,
                                    !.pos = IF p = 1 THEN <<0, 0>> ELSE @]]
    /\ gameStartTime = 1
    /\ isRunning = TRUE
    /\ fallInterval = MIN_FALL_INTERVAL
    /\ nextFallTimeout = "live"
    /\ pendingFalls = {}
    /\ selTimers = 1
    /\ fallTimers = NoTimers
    /\ cycles = MaxRateCycles
    /\ checkTimers = [g \in Gens |-> 0]
    /\ playersSpawnStarted = TRUE
    /\ spawnCheck = FALSE
    /\ startKeys = 0
    /\ restartKeys = 0
    /\ elimCount = [p \in Players |-> 0]
    /\ gameOverCount = 0
    /\ winner = NoPlayer
    /\ tileWarningCount = NoTileEvents
    /\ tileFallenCount = NoTileEvents
    /\ calls = 0
    /\ lastCall = <<>>
    /\ result = <<>>
    /\ frameLoops = startGameLoop(startGameLoop(0))

LiveSelectionFire ==
    /\ \E targeted \in BOOLEAN :
          SelectionStep(targeted, Min(cycles + 1, MaxRateCycles))
    /\ UNCHANGED <<calls, lastCall, result, frameLoops, gen, now, matchPhase,
                   alivePlayers, subscribed, players, pl, gameStartTime,
                   checkTimers, playersSpawnStarted, spawnCheck, startKeys,
                   restartKeys, elimCount, gameOverCount, winner,
                   tileFallenCount>>

(* A frame that finds the shatter of tile k complete: getShatterProgress     *)
(* reaches 1 once shatterDuration has passed since startShatter.             *)
ShatterCompletes(k) ==
    /\ board[k].isShattering
    /\ Frame
    /\ ~board'[k].isShattering

NextLive ==
    \/ LiveSelectionFire
    \/ WarningFire
    \/ Frame
    \/ CheckFire

(* The event loop's guarantees: a timer that was set and not cleared fires   *)
(* (the selection timer, each warning timer, each delayed game-over check),  *)
(* animation frames keep coming, and time passes, so that the shatter of a   *)
(* tile is found complete by some frame.  Only the tiles of LiveTiles can    *)
(* get a warning timer or start a shatter here.                              *)
SpecLive ==
    /\ InitLive
    /\ [][NextLive]_vars
    /\ WF_vars(LiveSelectionFire)
    /\ \A k \in LiveTiles : WF_vars(executeFall(k))
    /\ WF_vars(CheckFire)
    /\ WF_vars(Frame)
    /\ \A k \in LiveTiles : WF_vars(ShatterCompletes(k))

(* The game with the event loop's guarantee that a timer that was set and    *)
(* not cleared does fire: each delayed game-over check eventually runs.      *)
LiveSpec == Init /\ [][Next]_vars /\ \A g \in Gens : WF_vars(GameOverCheck(g))

(* ================================================================= claims *)

(* C1 (as claimed): in a two-player match, once a callback has left exactly  *)
(* one player in the alive roster, that player is the one gameOver reports:  *)
(* the roster stays as it is until the phase becomes GameOver, and the       *)
(* gameOver delivered then names that player as the winner.                  *)
C1_SurvivorReportedWinner ==
    [][(phase = InProgress /\ Len(alive) = 1)
          => /\ alivePlayers'[gen] = alive
             /\ (matchPhase'[gen] = GameOver => winner' = alive[1])]_vars

(* C2: when the fall of a tile executes with both players alive and on that  *)
(* tile, the callback eliminates both (each is falling, not alive, notified  *)
(* once) and empties the roster; and a match whose roster is empty ends in   *)
(* GameOver with one gameOver that reports no winner.                        *)
C2_SimultaneousDraw ==
    /\ [][\A k \in Grid :
            (/\ phase = InProgress
             /\ Len(alive) = PlayerCount
             /\ \A p \in Players : pl[p].pos = k
             /\ executeFall(k))
            => /\ alivePlayers'[gen] = <<>>
               /\ checkTimers'[gen] > 0
               /\ \A p \in Players : /\ ~pl'[p].isAlive
                                     /\ pl'[p].isFalling
                                     /\ elimCount'[p] = 1]_vars
    /\ (phase = InProgress /\ alive = <<>>)
          ~> (phase = GameOver /\ gameOverCount = 1 /\ winner = NoPlayer)

(* C2 witness: mid-match, both players have fallen from the same tile, which *)
(* is shattering, and the two delayed checks are outstanding.                *)
C2_Witness ==
    /\ phase = InProgress
    /\ alive = <<>>
    /\ DOMAIN pl = Players
    /\ pl[1].pos = pl[2].pos
    /\ board[pl[1].pos].isShattering
    /\ checkTimers[gen] = 2


(* C3 (as claimed): a call of eliminatePlayer on a player that an earlier    *)
(* call has already eliminated changes no state: the players (survival time  *)
(* included), the alive roster, the outstanding delayed game-over checks and *)
(* the notifications delivered stay as they were.                            *)
C3_SecondEliminateNoOp ==
    [][\A p \in Players :
          (~pl[p].isAlive /\ CallEliminate(p))
             => UNCHANGED <<pl, alivePlayers, checkTimers, elimCount>>]_vars

(* C4: in every state of the game each player has been notified eliminated  *)
(* (and had its survival time written by eliminatePlayer) at most once in    *)
(* the match.                                                                *)
C4_EliminatedAtMostOnce ==
    \A p \in Players : elimCount[p] <= 1

(* C4 witness: a player eliminated by its own movement lies on a tile whose  *)
(* warning timer is still to fire: the scheduler path will run on the tile   *)
(* of a player the movement path has eliminated.                             *)
C4_Witness ==
    /\ phase = InProgress
    /\ \E p \in DOMAIN pl : /\ elimCount[p] = 1
                            /\ pl[p].isFalling
                            /\ ~pl[p].isAlive
                            /\ fallTimers[pl[p].pos] > 0

(* C5: whenever the scheduler is not running (stop() has returned, or it was *)
(* never started) it holds no selection timer handle, its pending-fall map is *)
(* empty and none of its timers is outstanding, so no selection step and no  *)
(* executeFall can run until start() is called.                              *)
C5_StoppedHasNoTimers ==
    ~isRunning => /\ nextFallTimeout = "null"
                  /\ pendingFalls = {}
                  /\ selTimers = 0
                  /\ \A k \in Grid : fallTimers[k] = 0

(* C5 witness: the scheduler was stopped while a tile was in warning: the    *)
(* tile keeps its warning flag and its timer is gone.                        *)
C5_Witness ==
    /\ ~isRunning
    /\ calls >= 2
    /\ \E k \in Grid : board[k].isWarning /\ fallTimers[k] = 0

TileFlags(tile) == <<tile.isActive, tile.isWarning, tile.isShattering>>

(* C6 (as claimed): while the scheduler is stopped no tile's active, warning *)
(* or shattering flag changes, whatever callback runs.                       *)
C6_NoTileChangeWhileStopped ==
    [][~isRunning =>
          \A k \in Grid : TileFlags(board'[k]) = TileFlags(board[k])]_vars

(* C6 (amended): while the scheduler is stopped the only change of a tile's  *)
(* active, warning or shattering flag is the completion of a shatter that    *)
(* had begun before: a shattering tile becomes inactive in a frame. No tile  *)
(* is marked warning and no tile starts shattering.                          *)
C6_OnlyShatterCompletesWhileStopped ==
    [][~isRunning =>
          \A k \in Grid :
             \/ TileFlags(board'[k]) = TileFlags(board[k])
             \/ /\ board[k].isShattering
                /\ board'[k] = fall(board[k])]_vars

(* C6 witness: the scheduler is stopped while one tile is shattering and     *)
(* another is in warning.                                                    *)
C6_Witness ==
    /\ ~isRunning
    /\ calls >= 2
    /\ \E k \in Grid : board[k].isShattering
    /\ \E k \in Grid : board[k].isWarning

(* C7: a call of stop() leaves the scheduler not running, with no selection  *)
(* timer and an empty pending-fall map; and a call of stop() on a scheduler  *)
(* that is not running (stopped before, or never started) changes nothing of *)
(* the scheduler or the board.                                               *)
C7_StopIdempotent ==
    [][CallStop =>
          /\ ~isRunning'
          /\ nextFallTimeout' = "null"
          /\ pendingFalls' = {}
          /\ selTimers' = 0
          /\ (~isRunning => UNCHANGED <<schedVars, board>>)]_vars

(* C7 witness: three calls have been made, a start() among them (a tile is   *)
(* in warning), and the scheduler is stopped: stop() ran twice after the     *)
(* start, or once before it and once after.                                  *)
C7_Witness ==
    /\ calls = 3
    /\ ~isRunning
    /\ \E k \in Grid : board[k].isWarning

(* C8: after n cycles since start() the interval is max(300, 800 - 20n): it  *)
(* is above 300 before the 25th cycle and 300 from the 25th on; a cycle      *)
(* never increases it; start() sets it to 800.                               *)
C8_IntervalLaw ==
    /\ [](/\ fallInterval = Max(300, 800 - 20 * cycles)
          /\ fallInterval >= MIN_FALL_INTERVAL
          /\ (cycles < 25 => fallInterval > 300)
          /\ (cycles >= 25 => fallInterval = 300))
    /\ [][/\ (cycles' = cycles + 1 => fallInterval' <= fallInterval)
          /\ (CallStart => fallInterval' = 800 /\ cycles' = 0)]_vars

(* C8 witness: the running scheduler has run more than 25 cycles and its     *)
(* interval is at the floor.                                                 *)
C8_Witness ==
    /\ isRunning
    /\ cycles = 26
    /\ fallInterval = 300

(* C9: a delayed game-over check that fires on a GameState whose phase is    *)
(* not InProgress, or that has more than one player alive, changes nothing   *)
(* but the set of outstanding checks: no phase, no roster, no scheduler, no  *)
(* listener and no notification count changes.                               *)
C9_StaleCheckNoOp ==
    [][\A g \in Gens :
          (/\ matchPhase[g] # InProgress \/ Len(alivePlayers[g]) > 1
           /\ GameOverCheck(g))
             => UNCHANGED <<gameOverCount, winner, matchPhase, alivePlayers,
                            subscribed, schedVars, restartKeys, startKeys,
                            elimCount, board, players, pl, gen>>]_vars

(* C9 witness: after a restart the new match is in progress while a delayed  *)
(* check of the previous match is still outstanding.                         *)
C9_Witness ==
    /\ gen = 1
    /\ checkTimers[0] > 0
    /\ matchPhase[1] = InProgress

PhaseStep(a, b) ==
    \/ a = WaitingToStart /\ b = Spawning
    \/ a = Spawning /\ b = InProgress
    \/ a = InProgress /\ b = GameOver

(* C10: the phase of every GameState instance, and the phase the controller  *)
(* sees, change only by one step of WaitingToStart -> Spawning -> InProgress *)
(* -> GameOver, or from GameOver to WaitingToStart in the KeyR handler.      *)
C10_PhaseOrder ==
    [][/\ \A g \in Gens :
             matchPhase'[g] # matchPhase[g]
                => \/ PhaseStep(matchPhase[g], matchPhase'[g])
                   \/ /\ matchPhase[g] = GameOver
                      /\ matchPhase'[g] = WaitingToStart
                      /\ g = gen
                      /\ PressR
       /\ matchPhase'[gen'] # matchPhase[gen]
             => \/ PhaseStep(matchPhase[gen], matchPhase'[gen'])
                \/ /\ matchPhase[gen] = GameOver
                   /\ matchPhase'[gen'] = WaitingToStart
                   /\ PressR]_vars

(* C10 witness: a match that follows a restart has reached GameOver. *)
C10_Witness ==
    /\ gen = 1
    /\ matchPhase[1] = GameOver

(* C11: players are created only in Spawning and only once no tile of the   *)
(* initialized board is spawning; the phase becomes InProgress, and the      *)
(* scheduler starts, only in the same callback, from Spawning, once the      *)
(* players exist and no player and no tile is spawning; and no selection     *)
(* step runs while a tile or a player is spawning.                           *)
C11_SpawnOrder ==
    [][/\ (DOMAIN pl = {} /\ DOMAIN pl' # {})
             => /\ phase = Spawning
                /\ DOMAIN board = Grid
                /\ \A c \in Grid : ~board[c].isSpawning
                /\ \A p \in DOMAIN pl' : pl'[p].isSpawning
       /\ ((phase # InProgress /\ matchPhase'[gen'] = InProgress)
           \/ (~isRunning /\ isRunning'))
             => /\ phase = Spawning
                /\ matchPhase'[gen] = InProgress
                /\ ~isRunning /\ isRunning'
                /\ DOMAIN pl = Players
                /\ \A p \in Players : ~pl[p].isSpawning
                /\ \A c \in DOMAIN board : ~board[c].isSpawning
       /\ SelectionFire
             => /\ \A c \in DOMAIN board : ~board[c].isSpawning
                /\ \A p \in DOMAIN pl : ~pl[p].isSpawning]_vars

(* C11 witness: the scheduler has selected a tile in a match whose tiles and *)
(* players have all finished spawning.                                       *)
C11_Witness ==
    /\ phase = InProgress
    /\ isRunning
    /\ cycles = 1
    /\ DOMAIN pl = Players
    /\ \E k \in Grid : board[k].isWarning

(* C12: in every state whose phase is GameOver the scheduler is stopped: it  *)
(* is not running, holds no selection timer handle, has no selection timer   *)
(* and no warning timer outstanding, and its pending-fall map is empty.      *)
C12_GameOverSchedulerStopped ==
    phase = GameOver
       => /\ ~isRunning
          /\ nextFallTimeout = "null"
          /\ selTimers = 0
          /\ pendingFalls = {}
          /\ \A k \in Grid : fallTimers[k] = 0

(* C12 witness: the match is over and a tile that was in warning when the    *)
(* gameOver notification stopped the scheduler is still marked warning.      *)
C12_Witness ==
    /\ phase = GameOver
    /\ gameOverCount = 1
    /\ cycles >= 1
    /\ \E k \in Grid : board[k].isWarning

(* C13 (as claimed): a tile of the board changes state only in the order     *)
(* spawning, idle, warning, shattering, inactive: it becomes warning only    *)
(* when idle (spawned, active, not warning, not shattering), it becomes      *)
(* shattering only when warning, and it becomes inactive only when           *)
(* shattering.                                                               *)
C13_TileLifecycleOrder ==
    [][\A k \in DOMAIN board \cap DOMAIN board' :
          /\ (~board[k].isWarning /\ board'[k].isWarning)
                => /\ ~board[k].isSpawning
                   /\ board[k].isActive
                   /\ ~board[k].isShattering
          /\ (~board[k].isShattering /\ board'[k].isShattering)
                => board[k].isActive /\ board[k].isWarning
          /\ (board[k].isActive /\ ~board'[k].isActive)
                => board[k].isShattering]_vars

(* C14 (as claimed): a tile that is inactive stays as it is for as long as   *)
(* the board holds it: its active, warning and shattering flags do not       *)
(* change.                                                                   *)
C14_InactiveTileTerminal ==
    [][\A k \in DOMAIN board \cap DOMAIN board' :
          ~board[k].isActive
             => TileFlags(board'[k]) = TileFlags(board[k])]_vars

(* C15: in every state of the game a player is falling exactly when it is    *)
(* not alive; and for as long as the GameState holds the player, its alive   *)
(* flag does not return to true and its falling flag does not return to      *)
(* false.                                                                    *)
C15_PlayerLifecycle ==
    /\ [](\A p \in DOMAIN pl : pl[p].isFalling <=> ~pl[p].isAlive)
    /\ [][\A p \in DOMAIN pl \cap DOMAIN pl' :
             /\ ~pl[p].isAlive => ~pl'[p].isAlive
             /\ pl[p].isFalling => pl'[p].isFalling]_vars

(* C15 witness: the match is over with one player eliminated (falling, not   *)
(* alive) and the other alive and not falling.                               *)
C15_Witness ==
    /\ phase = GameOver
    /\ DOMAIN pl = Players
    /\ \E p \in Players : pl[p].isFalling /\ ~pl[p].isAlive
    /\ \E p \in Players : pl[p].isAlive /\ ~pl[p].isFalling

(* C16: in every state of a match in progress, every movement tick that can *)
(* run next eliminates, once, each player of the roster that is not falling  *)
(* and whose candidate position projects to no tile or to an inactive tile:  *)
(* the tick leaves it falling, not alive, out of the roster, with one        *)
(* playerEliminated delivered for it and its position not set to the         *)
(* candidate.  A callback that eliminates a player leaves its position as it *)
(* was; and no callback changes the position or the velocity of a player     *)
(* that is not alive, or eliminates it again.                                *)
C16_InvalidMoveEliminatesOnce ==
    /\ [](phase = InProgress =>
            \A cand \in Moves(phase, pl, alive) :
               LET e == updatePlayers(CurEff, phase, alive, cand, board,
                                      subscribed[gen], now, gameStartTime)
               IN  \A p \in SeqToSet(alive) :
                      (~pl[p].isFalling
                       /\ ~(cand[p].cell \in DOMAIN board
                            /\ board[cand[p].cell].isActive))
                         => /\ e.pl[p].isFalling
                            /\ ~e.pl[p].isAlive
                            /\ p \notin SeqToSet(e.alive)
                            /\ e.elim[p] = elimCount[p] + 1
                            /\ e.elim[p] = 1
                            /\ e.pl[p].pos = pl[p].pos)
    /\ [][\A p \in DOMAIN pl \cap DOMAIN pl' :
             /\ (pl[p].isAlive /\ ~pl'[p].isAlive)
                   => /\ pl'[p].pos = pl[p].pos
                      /\ elimCount'[p] = elimCount[p] + 1
             /\ ~pl[p].isAlive
                   => /\ pl'[p].pos = pl[p].pos
                      /\ pl'[p].vel = pl[p].vel
                      /\ elimCount'[p] = elimCount[p]]_vars

(* C16 witness: a player that was moving stepped to a cell with no tile or   *)
(* with an inactive tile: it is eliminated, where it stood, on a tile that   *)
(* is still active, while the match goes on.                                 *)
C16_Witness ==
    /\ phase = InProgress
    /\ \E p \in DOMAIN pl : /\ ~pl[p].isAlive
                            /\ pl[p].vel = 1
                            /\ elimCount[p] = 1
                            /\ board[pl[p].pos].isActive
                            /\ ~board[pl[p].pos].isShattering
                            /\ ~board[pl[p].pos].isWarning
                            /\ fallTimers[pl[p].pos] = 0

(* C17 (as claimed): in every state of a match in progress, every movement   *)
(* tick that can run next eliminates each player of the roster that is not   *)
(* falling and whose candidate position projects to a tile the scheduler has *)
(* removed (executeFall has run removeTile on it: the tile is shattering or  *)
(* inactive).                                                                *)
C17_MoveOntoRemovedTileEliminates ==
    phase = InProgress =>
       \A cand \in Moves(phase, pl, alive) :
          LET e == updatePlayers(CurEff, phase, alive, cand, board,
                                 subscribed[gen], now, gameStartTime)
          IN  \A p \in SeqToSet(alive) :
                 (/\ ~pl[p].isFalling
                  /\ cand[p].cell \in DOMAIN board
                  /\ \/ board[cand[p].cell].isShattering
                     \/ ~board[cand[p].cell].isActive)
                    => /\ e.pl[p].isFalling
                       /\ ~e.pl[p].isAlive
                       /\ e.elim[p] = elimCount[p] + 1

(* C18: the callback of a tile's warning timer marks falling and eliminates, *)
(* once each, exactly the players of the alive roster whose position         *)
(* projects to that tile when the timer fires, wherever they were when the   *)
(* tile was selected; it removes exactly them from the roster and changes    *)
(* nothing of any other player.                                              *)
C18_FallEliminatesOccupantsAtFireTime ==
    [][\A k \in Grid :
          executeFall(k)
             => /\ \A p \in DOMAIN pl :
                      IF p \in SeqToSet(alive) /\ pl[p].pos = k
                      THEN /\ pl'[p].isFalling
                           /\ ~pl'[p].isAlive
                           /\ pl'[p].pos = k
                           /\ elimCount'[p] = elimCount[p] + 1
                      ELSE /\ pl'[p] = pl[p]
                           /\ elimCount'[p] = elimCount[p]
                /\ alivePlayers'[gen] =
                      SelectSeq(alive, LAMBDA p : pl[p].pos # k)]_vars

(* C18 witness: a tile has fallen on which one player started and the other  *)
(* did not: the one that started on it left it and is alive on another tile, *)
(* the one that entered it was eliminated on it.                             *)
C18_Witness ==
    /\ phase = InProgress
    /\ DOMAIN pl = Players
    /\ \E p, q \in Players :
          /\ p # q
          /\ board[StartCell(q)].isShattering
          /\ pl[p].pos = StartCell(q)
          /\ ~pl[p].isAlive /\ pl[p].isFalling /\ elimCount[p] = 1
          /\ pl[q].isAlive /\ pl[q].pos # StartCell(q)

(* C19: the tile a selection step chooses (the one it sets a warning timer   *)
(* for) is on the board and, when the step begins, active and not in         *)
(* warning; and a step that takes the occupied-targeting branch (the random  *)
(* draw says so and some eligible tile is occupied) chooses a tile that a    *)
(* player of the alive roster is on.                                         *)
C19_SelectionPicksEligibleTile ==
    [][\A targeted \in BOOLEAN :
          (SelectionBranch(CycleCap, targeted) /\ SelectionFire)
             => \A k \in Grid :
                   fallTimers'[k] > fallTimers[k]
                      => /\ k \in DOMAIN board
                         /\ board[k].isActive
                         /\ ~board[k].isWarning
                         /\ (/\ targeted
                             /\ \E c \in DOMAIN board :
                                   /\ board[c].isActive /\ ~board[c].isWarning
                                   /\ \E p \in SeqToSet(alive) : pl[p].pos = c)
                               => \E p \in SeqToSet(alive) : pl[p].pos = k]_vars

(* C19 witness: the tile under an alive player has been selected: it is in   *)
(* warning with its timer outstanding, in the first cycle of the match.      *)
C19_Witness ==
    /\ phase = InProgress
    /\ cycles = 1
    /\ \E p \in SeqToSet(alive) :
          /\ board[pl[p].pos].isWarning
          /\ fallTimers[pl[p].pos] = 1

(* C20: a call of markTileWarning with a key the board has no tile for, or   *)
(* with the key of a tile that is inactive, changes nothing (no tile, no     *)
(* notification count); with the key of an active tile it leaves that tile   *)
(* in warning, delivers one tileWarning for that key, and changes no other   *)
(* tile and no other notification count.                                     *)
C20_MarkTileWarningGuarded ==
    [][\A k \in Cells :
          CallMarkTileWarningOn(k)
             => IF k \in DOMAIN board /\ board[k].isActive
                THEN /\ board'[k] = [board[k] EXCEPT !.isWarning = TRUE]
                     /\ \A c \in DOMAIN board \ {k} : board'[c] = board[c]
                     /\ tileWarningCount'[k] = tileWarningCount[k] + 1
                     /\ \A c \in Cells \ {k} :
                           tileWarningCount'[c] = tileWarningCount[c]
                     /\ UNCHANGED <<tileFallenCount, elimCount, gameOverCount>>
                ELSE UNCHANGED <<board, tileWarningCount, tileFallenCount,
                                 elimCount, gameOverCount>>]_vars

(* C20 witness: markTileWarning has just been called with the key of a tile  *)
(* that is inactive, after a call with the key of an active tile: the first  *)
(* tile is in warning with one tileWarning delivered, the inactive one has   *)
(* none.                                                                     *)
C20_Witness ==
    /\ Len(lastCall) = 2
    /\ lastCall[1] = "markTileWarning"
    /\ lastCall[2] \in Grid
    /\ ~board[lastCall[2]].isActive
    /\ ~board[lastCall[2]].isWarning
    /\ tileWarningCount[lastCall[2]] = 0
    /\ \E c \in Grid : board[c].isWarning /\ tileWarningCount[c] = 1

(* C21 (as claimed): a call of removeTile with a key the board has no tile   *)
(* for, or with the key of a tile that is inactive, changes nothing: no tile *)
(* changes and no tileFallen (or other) notification is delivered.           *)
C21_RemoveTileGuarded ==
    [][\A k \in Cells :
          (CallRemoveTileOn(k)
           /\ ~(k \in DOMAIN board /\ board[k].isActive))
             => UNCHANGED <<board, tileWarningCount, tileFallenCount,
                            elimCount, gameOverCount>>]_vars

(* C22: the restart handler is bound only while the match is over, when the  *)
(* scheduler holds no selection timer and no warning timer and the spawn     *)
(* interval is cleared, so a restart leaves no such timer behind; and a      *)
(* delayed game-over check set by an earlier match that fires after the      *)
(* restart changes nothing but the set of outstanding checks: no board, no   *)
(* player, no roster, no phase, no scheduler and no notification count of    *)
(* the new match changes, and the instance it belongs to stays reset, with   *)
(* no listener.                                                              *)
C22_StaleTimersAfterRestart ==
    /\ [](restartKeys > 0
             => /\ phase = GameOver
                /\ ~spawnCheck
                /\ selTimers = 0
                /\ \A k \in Grid : fallTimers[k] = 0)
    /\ [](\A g \in Gens :
             g < gen => /\ ~subscribed[g]
                        /\ matchPhase[g] = WaitingToStart
                        /\ alivePlayers[g] = <<>>)
    /\ [][\A g \in Gens :
             (g < gen /\ GameOverCheck(g))
                => UNCHANGED <<board, players, pl, alivePlayers, matchPhase,
                               gameStartTime, subscribed, schedVars,
                               elimCount, gameOverCount, winner,
                               tileWarningCount, tileFallenCount,
                               startKeys, restartKeys, gen>>]_vars

(* C22 witness: after a restart the new match is in progress with one player *)
(* left alive and a tile in warning, its own delayed check is outstanding,   *)
(* and so is a delayed check of the previous match.                          *)
C22_Witness ==
    /\ gen = 1
    /\ checkTimers[0] > 0
    /\ checkTimers[1] > 0
    /\ matchPhase[1] = InProgress
    /\ Len(alivePlayers[1]) = 1
    /\ \E k \in Grid : board[k].isWarning

(* C23: a call of reset() leaves the board empty, the player list and the    *)
(* alive roster empty, the phase WaitingToStart and the start time 0, and    *)
(* leaves the emitter without listeners: from then on no callback delivers a *)
(* notification, whatever the GameState emits.                               *)
C23_ResetWipesState ==
    /\ [][CallReset
             => /\ board' = EmptyBoard
                /\ players' = <<>>
                /\ alivePlayers'[gen] = <<>>
                /\ matchPhase'[gen] = WaitingToStart
                /\ gameStartTime' = 0
                /\ ~subscribed'[gen]]_vars
    /\ [][~subscribed[gen]
             => UNCHANGED <<elimCount, gameOverCount, winner,
                            tileWarningCount, tileFallenCount>>]_vars

(* C23 witness: eliminatePlayer has just been called, after a reset, on a    *)
(* player that had not been eliminated before: the player is not alive and   *)
(* no playerEliminated was delivered for it.                                 *)
C23_Witness ==
    /\ Len(lastCall) = 2
    /\ lastCall[1] = "eliminatePlayer"
    /\ ~subscribed[gen]
    /\ board = EmptyBoard
    /\ phase = WaitingToStart
    /\ ~pl[lastCall[2]].isAlive
    /\ elimCount[lastCall[2]] = 0

C25_DistanceIsMetric ==
    (lastCall[1] = "distance" /\ result # <<>>)
       => LET a == lastCall[2]
              b == lastCall[3]
              d == result[1]
          IN  /\ d.ab = d.ba
              /\ (d.ab = 0 <=> a = b)
              /\ d.ab2 % 2 = 0
              /\ 2 * d.ab = d.ab2
              /\ d.ab >= 0
              /\ d.ac <= d.ab + d.bc

(* C25 witness: the distances between two opposite corners of               *)
(* generateHexGrid(MaxCoord) and its centre have been computed: the corners  *)
(* are 2 * MaxCoord apart, each MaxCoord from the centre.                    *)
C25_Witness ==
    /\ lastCall[1] = "distance"
    /\ result # <<>>
    /\ lastCall[2] = <<-MaxCoord, MaxCoord>>
    /\ lastCall[3] = <<0, 0>>
    /\ lastCall[4] = <<MaxCoord, -MaxCoord>>
    /\ lastCall[2] \in SeqToSet(generateHexGrid(MaxCoord))
    /\ lastCall[4] \in SeqToSet(generateHexGrid(MaxCoord))
    /\ result[1].ac = 2 * MaxCoord
    /\ result[1].ab = MaxCoord
    /\ result[1].bc = MaxCoord

(* C26: for every integer coordinate p with components from -(MaxRadius+1)   *)
(* to MaxRadius+1 and every radius r from -1 to MaxRadius, isWithinGrid(p,   *)
(* r) returns true exactly when p is one of the coordinates that             *)
(* generateHexGrid(r) returns.                                               *)
C26_WithinGridIffGenerated ==
    (lastCall[1] = "isWithinGrid" /\ result # <<>>)
       => (result[1] <=>
              lastCall[2] \in SeqToSet(generateHexGrid(lastCall[3])))

(* C26 witness: isWithinGrid has returned false for a coordinate whose q and *)
(* r are within the radius and whose third cube component is not.            *)
C26_Witness ==
    /\ lastCall[1] = "isWithinGrid"
    /\ result = <<FALSE>>
    /\ lastCall[3] = MaxRadius
    /\ lastCall[2] = <<MaxRadius, 1>>

(* C27: for every coordinate p that generateHexGrid(MaxRadius) returns,      *)
(* every size of HexSizes and centre of Centers, and every rounding error of *)
(* the two conversions within FloatErr units, pixelToAxial applied to the    *)
(* pixel that axialToPixel returns for p, with the same size and centre,     *)
(* returns p.                                                                *)
C27_PixelRoundTrip ==
    (lastCall[1] = "pixelToAxial" /\ result # <<>>)
       => result[1] = lastCall[2]

(* C27 witness: the round trip has returned a corner of the grid, computed   *)
(* with HEX_SIZE 40 around the canvas centre, with every rounding error       *)
(* downwards.                                                                 *)
C27_Witness ==
    /\ lastCall[1] = "pixelToAxial"
    /\ result = << <<-MaxRadius, MaxRadius>> >>
    /\ lastCall[2] = <<-MaxRadius, MaxRadius>>
    /\ lastCall[3] = 40
    /\ lastCall[4] = 350
    /\ lastCall[5] = [x |-> -FloatErr, y |-> -FloatErr,
                      q |-> -FloatErr, r |-> -FloatErr]

(* C28: a player's position or velocity changes only in a call of            *)
(* updatePlayers made while the phase is InProgress, and only for a player   *)
(* that is then in the alive roster, alive and not falling; a call made in   *)
(* another phase changes nothing.                                            *)
C28_MovementOnlyInProgress ==
    /\ [][\A p \in DOMAIN pl \cap DOMAIN pl' :
             (pl'[p].pos # pl[p].pos \/ pl'[p].vel # pl[p].vel)
                => /\ phase = InProgress
                   /\ CallUpdatePlayers
                   /\ p \in SeqToSet(alive)
                   /\ pl[p].isAlive
                   /\ ~pl[p].isFalling]_vars
    /\ [][(phase # InProgress /\ CallUpdatePlayers)
             => UNCHANGED <<pl, alivePlayers, checkTimers, elimCount>>]_vars

(* C28 witness: the match is over and updatePlayers has been called with the *)
(* keys of the surviving player held towards another cell: the player is     *)
(* where it was, alive.                                                      *)
C28_Witness ==
    /\ phase = GameOver
    /\ Len(lastCall) = 2
    /\ lastCall[1] = "updatePlayers"
    /\ \E p \in SeqToSet(alive) :
          /\ pl[p].isAlive
          /\ lastCall[2][p].cell \in Grid
          /\ lastCall[2][p].cell # pl[p].pos

(* C29: the notifications of a tile's fall come in order.  The selection     *)
(* step that sets the tile's warning timer leaves the tile in warning and    *)
(* delivers its tileWarning, and delivers no tileFallen and no               *)
(* playerEliminated; every outstanding warning timer of a tile has its       *)
(* tileWarning delivered and its tileFallen not yet; and the timer's         *)
(* callback delivers a playerEliminated for each player of the roster on the *)
(* tile and, after them, one tileFallen, and leaves the tile shattering.     *)
C29_FallEventOrder ==
    /\ [](\A k \in Grid :
             tileWarningCount[k] >= tileFallenCount[k] + fallTimers[k])
    /\ [][\A k \in Grid :
             /\ fallTimers'[k] > fallTimers[k]
                   => /\ board'[k].isWarning
                      /\ tileWarningCount'[k] = tileWarningCount[k] + 1
                      /\ UNCHANGED <<tileFallenCount, elimCount>>
             /\ executeFall(k)
                   => LET ev == executeFallEmits(k)
                          n == Len(ev)
                      IN  /\ tileWarningCount[k] > tileFallenCount[k]
                          /\ n >= 1
                          /\ ev[n][1] = "tileFallen" /\ ev[n][2] = k
                          /\ \A i \in 1..(n - 1) : ev[i][1] = "playerEliminated"
                          /\ \A p \in SeqToSet(alive) :
                                pl[p].pos = k
                                   => \E i \in 1..(n - 1) : ev[i][2] = p
                          /\ tileFallenCount'[k] = tileFallenCount[k] + 1
                          /\ \A p \in DOMAIN pl :
                                elimCount'[p] = elimCount[p] +
                                   Cardinality({ i \in 1..(n - 1) : ev[i][2] = p })
                          /\ board'[k].isShattering
                          /\ ~board'[k].isWarning]_vars

(* C29 witness: a tile with one tileWarning and one tileFallen delivered is  *)
(* shattering, the player that stood on it has its playerEliminated          *)
(* delivered, and the other player is alive.                                 *)
C29_Witness ==
    /\ phase = InProgress
    /\ Len(alive) = 1
    /\ \E k \in Grid :
          /\ tileWarningCount[k] = 1
          /\ tileFallenCount[k] = 1
          /\ fallTimers[k] = 0
          /\ board[k].isShattering
          /\ \E p \in DOMAIN pl : /\ pl[p].pos = k
                                  /\ ~pl[p].isAlive
                                  /\ elimCount[p] = 1

(* C30: a selection cycle that finds no tile active and not in warning       *)
(* changes no tile, delivers no notification and registers no pending fall;  *)
(* a cycle that finds one puts exactly one tile in warning, a tile that was  *)
(* active and not in warning, delivers its tileWarning, and registers        *)
(* exactly one pending fall, for that tile; and either cycle leaves the      *)
(* scheduler running with its next selection timer set.  (The count of       *)
(* deliveries is kept up to MaxEmit.)                                        *)
C30_SelectionCycle ==
    [][cycles' = cycles + 1
          => /\ isRunning /\ isRunning'
             /\ selTimers' = selTimers
             /\ nextFallTimeout' = "live"
             /\ UNCHANGED <<tileFallenCount, elimCount, gameOverCount>>
             /\ IF activeTiles(board) = {}
                THEN UNCHANGED <<board, tileWarningCount, pendingFalls,
                                 fallTimers>>
                ELSE \E k \in activeTiles(board) :
                        /\ k \notin pendingFalls
                        /\ board' = [board EXCEPT ![k].isWarning = TRUE]
                        /\ tileWarningCount' =
                              [tileWarningCount EXCEPT ![k] = Inc(@)]
                        /\ pendingFalls' = pendingFalls \cup {k}
                        /\ fallTimers' = [fallTimers EXCEPT ![k] = @ + 1]]_vars

(* C30 witness: the scheduler, started once, has run three cycles over a     *)
(* board with two eligible tiles: two cycles selected a tile each, the third *)
(* found none, and the next selection timer is set.                          *)
C30_Witness ==
    /\ calls = 1
    /\ cycles = 3
    /\ isRunning
    /\ nextFallTimeout = "live"
    /\ selTimers = 1
    /\ \A k \in LateTiles : tileWarningCount[k] = 1
    /\ \A k \in Grid \ LateTiles : tileWarningCount[k] = 0

(* C31: in every state of the game at most one gameOver has been delivered   *)
(* in the current match, however many delayed checks were set; and once one  *)
(* has been delivered, a delayed check that fires delivers nothing.          *)
C31_GameOverOncePerMatch ==
    /\ [](gameOverCount <= 1)
    /\ [][(gameOverCount = 1 /\ CheckFire) => UNCHANGED gameOverCount]_vars

(* C31 witness: the match is over with both players eliminated: each         *)
(* elimination set a delayed check, both checks have fired, and one gameOver *)
(* was delivered.                                                            *)
C31_Witness ==
    /\ phase = GameOver
    /\ gameOverCount = 1
    /\ DOMAIN pl = Players
    /\ \A p \in Players : ~pl[p].isAlive /\ elimCount[p] = 1
    /\ checkTimers[gen] = 0

(* C32: in every state of the game each tile key has had at most one         *)
(* tileWarning and at most one tileFallen delivered in the current match.    *)
C32_TileEventsOncePerMatch ==
    \A k \in Grid : tileWarningCount[k] <= 1 /\ tileFallenCount[k] <= 1

(* C33: in every state of the game in which the scheduler is running, the    *)
(* pending-fall map has an entry for a key exactly when the tile of that key *)
(* is warning, a warning tile has exactly one outstanding warning timer, and *)
(* a key with an outstanding warning timer is an active, warning tile.       *)
C33_PendingFallsMatchWarningTiles ==
    isRunning =>
        \A k \in Grid :
            LET warning == k \in DOMAIN board /\ board[k].isWarning
            IN  /\ (k \in pendingFalls) <=> warning
                /\ warning => fallTimers[k] = 1
                /\ fallTimers[k] > 0 => warning /\ board[k].isActive

(* C35: in every state of the game the alive roster holds exactly the        *)
(* players whose alive flag is true, holds no player twice and only players  *)
(* of the player list; and from the moment the players exist no step makes   *)
(* the roster longer.                                                        *)
C35_RosterIsAliveSet ==
    /\ [](/\ SeqToSet(alive) = { p \in DOMAIN pl : pl[p].isAlive }
          /\ Cardinality(SeqToSet(alive)) = Len(alive)
          /\ SeqToSet(alive) \subseteq SeqToSet(players))
    /\ [][players # <<>> =>
              Len(alivePlayers'[gen']) <= Len(alivePlayers[gen])]_vars

(* C35 witness: a match in progress in which one of the two players has been *)
(* eliminated and the other is in the roster.                                *)
C35_Witness ==
    /\ phase = InProgress
    /\ Len(players) = PlayerCount
    /\ Len(alive) = 1
    /\ \E p \in DOMAIN pl : ~pl[p].isAlive /\ elimCount[p] = 1

(* C36: in every state of the game in which the scheduler is running, or has *)
(* a selection timer or a warning timer outstanding, or has an entry in its  *)
(* pending-fall map, the phase is InProgress.                                *)
C36_SchedulerOnlyInProgress ==
    (\/ isRunning
     \/ selTimers > 0
     \/ nextFallTimeout = "live"
     \/ pendingFalls # {}
     \/ \E k \in Grid : fallTimers[k] > 0)
    => phase = InProgress

(* C36 witness: a match in progress whose scheduler is running with its      *)
(* selection timer and the warning timer of a tile outstanding.              *)
C36_Witness ==
    /\ phase = InProgress
    /\ isRunning
    /\ selTimers > 0
    /\ \E k \in pendingFalls : fallTimers[k] > 0 /\ board[k].isWarning

(* C37: in every state of the game whose phase is GameOver the first player  *)
(* of the alive roster (or none) is the winner that gameOver reported, and   *)
(* every step taken in GameOver other than the restart leaves the roster,    *)
(* the players' alive flags and the eliminations delivered as they are.      *)
C37_RosterFrozenInGameOver ==
    /\ [](phase = GameOver =>
              gameOverCount = 1 /\ winner = FirstAlive(alive))
    /\ [][phase = GameOver /\ gen' = gen =>
              /\ alivePlayers'[gen] = alivePlayers[gen]
              /\ elimCount' = elimCount
              /\ \A p \in DOMAIN pl : pl'[p].isAlive = pl[p].isAlive]_vars

(* C37 witness: the match is over with a winner who stands on a tile that is *)
(* warning: stop() cleared the timer that would have eliminated that player. *)
C37_Witness ==
    /\ phase = GameOver
    /\ gameOverCount = 1
    /\ winner # NoPlayer
    /\ alive = <<winner>>
    /\ pl[winner].isAlive
    /\ board[pl[winner].pos].isWarning
    /\ board[pl[winner].pos].isActive

(* C38: in every state of a match in progress, every movement tick that can  *)
(* run next leaves each player of the roster it returns at a position that   *)
(* projects to a tile of the board that is active.                           *)
C38_RosterOnActiveTilesAfterTick ==
    phase = InProgress =>
       \A cand \in Moves(phase, pl, alive) :
          LET e == updatePlayers(CurEff, phase, alive, cand, board,
                                 subscribed[gen], now, gameStartTime)
          IN  \A p \in SeqToSet(e.alive) :
                 /\ e.pl[p].pos \in DOMAIN board
                 /\ board[e.pl[p].pos].isActive
                 /\ e.pl[p].isAlive
                 /\ ~e.pl[p].isFalling

(* C38 witness: a match in progress in which a player of the roster stands   *)
(* on a tile that has become inactive since the last tick (it stepped on the *)
(* tile while it was shattering); the next tick eliminates it.               *)
C38_Witness ==
    /\ phase = InProgress
    /\ \E p \in SeqToSet(alive) :
          /\ pl[p].pos \in DOMAIN board
          /\ ~board[pl[p].pos].isActive
          /\ ~pl[p].isFalling

(* C39: in every state of the game at most one requestAnimationFrame chain   *)
(* of gameLoop is active for the GameMode.                                   *)
C39_SingleFrameLoop ==
    frameLoops <= 1

(* C34: with timers firing, frames coming and time passing, a match that is  *)
(* in progress with its scheduler running leads to GameOver, whichever tiles *)
(* the selection draws and whatever the players' keys give.                  *)
C34_MatchEnds ==
    (phase = InProgress /\ isRunning) ~> (phase = GameOver)

(* C34 witness: the match has ended after its last tile fell: the phase is   *)
(* GameOver, one gameOver was delivered, and no tile of the board is active. *)
C34_Witness ==
    /\ phase = GameOver
    /\ gameOverCount = 1
    /\ \A k \in Grid : ~board[k].isActive
    /\ \A k \in LiveTiles : tileFallenCount[k] > 0

====
